---- MODULE Spec2Model ----
(***************************************************************************)
(* MultiSplitDecisionTreeClassifier (src/_tree.py): one classifier object  *)
(* and the calls made on it (fit, predict, score, feature_importances).    *)
(*                                                                         *)
(* Encoding of Python values:                                              *)
(*   - a column of X holds str tokens (dtype "str") or floats (dtype       *)
(*     "float"); a cell is a natural, the number of the token or the value *)
(*     of the float, and NaN is the cell of a missing value.  The columns  *)
(*     a fit call declares categorical or rank hold tokens, the ones it    *)
(*     declares numerical hold floats.                                     *)
(*   - a float is an exact rational [n, d], d > 0, in lowest terms.        *)
(*   - a dict is a function on its key set, a list is a sequence; None     *)
(*     for a dict or list argument is the empty one (the code only tests   *)
(*     their truth value), None for an int is NoneInt, None for a name is  *)
(*     None, a tree that is None is the empty sequence.                    *)
(*   - a boolean mask over the rows of X is the set of row numbers it      *)
(*     selects.                                                            *)
(*   - a str that the code formats and parses is a sequence of characters. *)
(***************************************************************************)
EXTENDS Integers, Sequences, FiniteSets, TLC

\* ------------------------------------------------------------ bounds
\* Largest number of rows of a training table.
MaxRows == 4
\* Largest number of fit calls made on the object.
MaxFits == 2
\* Largest number of predict / score / feature_importances calls.
MaxQueries == 2

\* ------------------------------------------------------------ Python values
None == "None"
NoneInt == 0 - 999
NaN == 0 - 1

\* `not x` for an int-or-None
Falsy(x) == x = NoneInt \/ x = 0

\* A list: `of` is the type of its items, "str" (tokens), "float" (values of a
\* float column) or "text" (the str '<= T' or '> T' of a threshold).
PyList(items, of) == [py |-> "list", of |-> of, v |-> items]
PyNone == [py |-> "None", of |-> "None", v |-> <<>>]

\* An item of a pd.Series: a numpy.float64 when the Series is of dtype float64
\* (py = "np"), the Python str or float itself when it is of dtype object.
PyScalar(x, series_dtype) ==
    [py |-> IF series_dtype = "float64" THEN "np" ELSE "scalar", v |-> x]

\* `if list_ == scalar:` -- "True", "False", or the exception it raises.
\* A Python list is never equal to a str or a float.  With a numpy.float64 the
\* comparison is numpy's, item by item, and gives an array: the truth value of
\* an array of one item is the item, that of a longer one is a ValueError.
ListEqScalar(list_, scalar) ==
    IF scalar.py # "np" THEN "False"
    ELSE IF Len(list_.v) # 1 THEN "ValueError"
    ELSE IF list_.of = "float" /\ scalar.v # NaN /\ list_.v[1] = scalar.v THEN "True"
    ELSE "False"

\* ------------------------------------------------------------ exact floats
RECURSIVE Gcd(_, _)
Gcd(a, b) == IF b = 0 THEN a ELSE Gcd(b, a % b)

Abs(x) == IF x < 0 THEN 0 - x ELSE x

Rat(n, d) ==
    LET g == Gcd(Abs(n), d)
    IN  [n |-> n \div g, d |-> d \div g]

RZero == [n |-> 0, d |-> 1]
RAdd(a, b) == Rat(a.n * b.d + b.n * a.d, a.d * b.d)
RSub(a, b) == Rat(a.n * b.d - b.n * a.d, a.d * b.d)
RMul(a, b) == Rat(a.n * b.n, a.d * b.d)
\* a / b for b > 0
RDiv(a, b) == Rat(a.n * b.d, a.d * b.n)
RLess(a, b) == a.n * b.d < b.n * a.d
RLeq(a, b) == a.n * b.d <= b.n * a.d

\* ------------------------------------------------------------ sequences
RECURSIVE Concat(_)
Concat(ss) == IF ss = <<>> THEN <<>> ELSE Head(ss) \o Concat(Tail(ss))

Range(s) == {s[i] : i \in DOMAIN s}

\* the list whose k-th item is f[k], every item evaluated once
List(f) == f \o <<>>

\* list.remove(x): the first occurrence is removed
Remove(s, x) ==
    LET i == CHOOSE k \in DOMAIN s : s[k] = x /\ \A j \in 1..(k - 1) : s[j] # x
    IN  SubSeq(s, 1, i - 1) \o SubSeq(s, i + 1, Len(s))

\* sorted(...) of a list of numbers
RECURSIVE Insert(_, _)
Insert(x, s) ==
    IF s = <<>> THEN <<x>>
    ELSE IF x < Head(s) THEN <<x>> \o s
    ELSE <<Head(s)>> \o Insert(x, Tail(s))

RECURSIVE Sorted(_)
Sorted(s) == IF s = <<>> THEN <<>> ELSE Insert(Head(s), Sorted(Tail(s)))

\* the names of a set, one after the other
RECURSIVE SetToSeqOfNames(_)
SetToSeqOfNames(S) ==
    IF S = {} THEN <<>>
    ELSE LET x == CHOOSE x \in S : TRUE
         IN  <<x>> \o SetToSeqOfNames(S \ {x})

RECURSIVE SortedSet(_)
SortedSet(S) ==
    IF S = {} THEN <<>>
    ELSE LET m == CHOOSE x \in S : \A z \in S : x <= z
         IN  <<m>> \o SortedSet(S \ {m})

\* ------------------------------------------------------------ str of a float
DigitChars == <<"0", "1", "2", "3", "4", "5", "6", "7", "8", "9">>

DigitOf(c) == (CHOOSE k \in DOMAIN DigitChars : DigitChars[k] = c) - 1

RECURSIVE IntText(_)
IntText(k) ==
    IF k < 10 THEN <<DigitChars[k + 1]>>
    ELSE IntText(k \div 10) \o <<DigitChars[(k % 10) + 1]>>

\* f'{threshold}' of a float that is a whole number or a whole number and a
\* half (the midpoint of two naturals): '6.0', '1.5'
FloatText(r) ==
    IntText(r.n \div r.d) \o <<".">> \o IntText(((r.n % r.d) * 10) \div r.d)

LeText(r) == <<"<", "=", " ">> \o FloatText(r)
GtText(r) == <<">", " ">> \o FloatText(r)

RECURSIVE DigitsValue(_)
DigitsValue(cs) ==
    IF cs = <<>> THEN 0
    ELSE DigitsValue(SubSeq(cs, 1, Len(cs) - 1)) * 10 + DigitOf(cs[Len(cs)])

RECURSIVE Pow10(_)
Pow10(k) == IF k = 0 THEN 1 ELSE 10 * Pow10(k - 1)

\* float(text) of a text 'digits.digits'
ParseFloat(cs) ==
    LET dot == CHOOSE k \in DOMAIN cs : cs[k] = "."
        whole == SubSeq(cs, 1, dot - 1)
        frac == SubSeq(cs, dot + 1, Len(cs))
    IN  Rat(DigitsValue(whole) * Pow10(Len(frac)) + DigitsValue(frac), Pow10(Len(frac)))

\* ------------------------------------------------------------ generators
\* categorical_partition: the partitions of a list in the order the generator
\* yields them; a partition is a list of blocks, a block a list of values.
RECURSIVE categorical_partition(_)
categorical_partition(collection) ==
    IF Len(collection) = 1 THEN << <<collection>> >>
    ELSE LET first == Head(collection)
             rest == categorical_partition(Tail(collection))
             Into(smaller) ==
                 [n \in 1..Len(smaller) |->
                     SubSeq(smaller, 1, n - 1) \o << <<first>> \o smaller[n] >>
                         \o SubSeq(smaller, n + 1, Len(smaller))]
                 \o << << <<first>> >> \o smaller >>
         IN  Concat(List([k \in 1..Len(rest) |-> Into(rest[k])]))

\* rank_partition that stops one cut short
rank_partition_short(collection) ==
    List([i \in 1..(Len(collection) - 2) |->
             <<SubSeq(collection, 1, i), SubSeq(collection, i + 1, Len(collection))>>])

\* rank_partition: (collection[:i], collection[i:]) for i = 1 .. len - 1
rank_partition(collection) ==
    List([i \in 1..(Len(collection) - 1) |->
             <<SubSeq(collection, 1, i), SubSeq(collection, i + 1, Len(collection))>>])

\* sorted(partitions, key=len): a stable sort by the number of blocks
SortedByLen(partitions) ==
    LET OfLen(k) == SelectSeq(partitions, LAMBDA p : Len(p) = k)
        longest == IF partitions = <<>> THEN 0
                   ELSE CHOOSE k \in {Len(partitions[i]) : i \in DOMAIN partitions} :
                            \A i \in DOMAIN partitions : Len(partitions[i]) <= k
    IN  Concat(List([k \in 1..longest |-> OfLen(k)]))

\* ------------------------------------------------------------ impurity
Count(y, mask, class_name) == Cardinality({i \in mask : y[i] = class_name})

distribution(self, y, mask) ==
    List([c \in 1..Len(self.class_names) |-> Count(y, mask, self.class_names[c])])

RECURSIVE RSum(_)
RSum(s) == IF s = <<>> THEN RZero ELSE RAdd(Head(s), RSum(Tail(s)))

gini(self, y, mask) ==
    LET n == Cardinality(mask)
        Term(c) ==
            LET p_i == Rat(Count(y, mask, self.class_names[c]), n)
            IN  RMul(p_i, RSub(Rat(1, 1), p_i))
    IN  RSum(List([c \in 1..Len(self.class_names) |-> Term(c)]))

impurity(self, y, mask) ==
    CASE self.criterion = "gini" -> gini(self, y, mask)

\* information_gain that adds up the impurities of the children without their
\* shares |A_i| / |A|
information_gain_unweighted(self, y, parent_mask, child_masks) ==
    RSub(impurity(self, y, parent_mask),
         RSum(List([k \in 1..Len(child_masks) |-> impurity(self, y, child_masks[k])])))

information_gain(self, y, parent_mask, child_masks) ==
    LET A == Cardinality(parent_mask)
        Term(k) == RMul(Rat(Cardinality(child_masks[k]), A),
                        impurity(self, y, child_masks[k]))
        second_term == RSum(List([k \in 1..Len(child_masks) |-> Term(k)]))
    IN  RSub(impurity(self, y, parent_mask), second_term)

\* y[parent_mask].value_counts().index[0]: a class of greatest count, the one
\* met first in row order among several
label(y, mask) ==
    LET first(c) == CHOOSE i \in mask : y[i] = c /\ \A j \in mask : y[j] = c => i <= j
        present == {y[i] : i \in mask}
    IN  CHOOSE c \in present :
            \A e \in present :
                \/ Count(y, mask, e) < Count(y, mask, c)
                \/ Count(y, mask, e) = Count(y, mask, c) /\ first(c) <= first(e)

\* ------------------------------------------------------------ split evaluators
\* X[feature_name] at row i
Cell(X, i, feature_name) == X.rows[i][feature_name]

\* isna that is not restricted to the rows of the mask
isna_anywhere(X, mask, feature_name) ==
    {i \in 1..Len(X.rows) : Cell(X, i, feature_name) = NaN}

isna(X, mask, feature_name) == {i \in mask : Cell(X, i, feature_name) = NaN}
\* X[feature_name].isin(list_): of is the type of the items of list_; a float is
\* in no list of tokens
isin(X, mask, feature_name, list_, of) ==
    {i \in mask : /\ Cell(X, i, feature_name) # NaN
                  /\ X.dtypes[feature_name] = of
                  /\ Cell(X, i, feature_name) \in Range(list_)}

NoSplit == [inf_gain |-> RZero, masks |-> <<>>, feature_values |-> <<>>, of |-> "str"]

\* the loop `if best_inf_gain < inf_gain: best... = ...` over the scored candidates
RECURSIVE BestCandidate(_, _)
BestCandidate(scored, best) ==
    IF scored = <<>> THEN best
    ELSE BestCandidate(Tail(scored),
                       IF RLess(best.inf_gain, Head(scored).inf_gain) THEN Head(scored)
                       ELSE best)

\* TooSmall with the leaf size taken as 1, whatever min_samples_leaf is
TooSmallOfOne(self, child_masks) ==
    \E k \in DOMAIN child_masks : Cardinality(child_masks[k]) < 1

\* `if mask.sum() < self.__min_samples_leaf: return 0, None` and its like: some
\* child of the candidate is too small
TooSmall(self, child_masks) ==
    \E k \in DOMAIN child_masks : Cardinality(child_masks[k]) < self.min_samples_leaf

categorical_split(self, X, y, parent_mask, feature_name, feature_values) ==
    LET mask_na == isna(X, parent_mask, feature_name)
        child_masks ==
            List([k \in 1..Len(feature_values) |->
                     isin(X, parent_mask, feature_name, feature_values[k],
                          X.dtypes[feature_name]) \cup mask_na])
    IN  IF TooSmall(self, child_masks) THEN NoSplit
        ELSE [inf_gain |-> information_gain(self, y, parent_mask, child_masks),
              masks |-> child_masks, feature_values |-> feature_values,
              of |-> X.dtypes[feature_name]]

\* `if np.NaN in available_feature_values: remove it`: the missing cell of X is
\* the object np.NaN, which the set holds and gives up
available_feature_values(X, parent_mask, feature_name) ==
    {Cell(X, i, feature_name) : i \in parent_mask} \ {NaN}

\* partitions with the first one generated kept among the candidates
partitions_keeping_first(self, values) ==
    LET bylen == SortedByLen(categorical_partition(SortedSet(values)))
    IN  IF Falsy(self.max_childs) THEN bylen
        ELSE SelectSeq(bylen, LAMBDA x : Len(x) <= self.max_childs)

\* the candidates of a categorical feature: the partitions generated but the
\* first, by number of blocks, those of more than max_childs blocks dropped
partitions(self, values) ==
    LET bylen == SortedByLen(Tail(categorical_partition(SortedSet(values))))
    IN  IF Falsy(self.max_childs) THEN bylen
        ELSE SelectSeq(bylen, LAMBDA x : Len(x) <= self.max_childs)

\* for feature_values in partitions: ... = self.__categorical_split(...)
ScoredPartitions(self, X, y, parent_mask, feature_name, candidates) ==
    List([k \in 1..Len(candidates) |->
             categorical_split(self, X, y, parent_mask, feature_name, candidates[k])])

\* what __categorical_split returns for each candidate, in the order of the loop
categorical_scored(self, X, y, parent_mask, feature_name) ==
    IF Cardinality(available_feature_values(X, parent_mask, feature_name)) <= 1 THEN <<>>
    ELSE ScoredPartitions(self, X, y, parent_mask, feature_name,
             partitions(self, available_feature_values(X, parent_mask, feature_name)))

best_categorical_split(self, X, y, parent_mask, feature_name) ==
    BestCandidate(categorical_scored(self, X, y, parent_mask, feature_name), NoSplit)

rank_split(self, X, y, parent_mask, feature_name, feature_values) ==
    LET left_list_ == feature_values[1]
        right_list_ == feature_values[2]
        mask_na == isna(X, parent_mask, feature_name)
        mask_left_na == isin(X, parent_mask, feature_name, left_list_, "str") \cup mask_na
        mask_right_na == isin(X, parent_mask, feature_name, right_list_, "str") \cup mask_na
        child_masks == <<mask_left_na, mask_right_na>>
    IN  IF TooSmall(self, child_masks) THEN NoSplit
        ELSE [inf_gain |-> information_gain(self, y, parent_mask, child_masks),
              masks |-> child_masks, feature_values |-> feature_values, of |-> "str"]

\* for feature_values in rank_partition(...): ... = self.__rank_split(...)
ScoredCuts(self, X, y, parent_mask, feature_name, cuts) ==
    List([k \in 1..Len(cuts) |->
             rank_split(self, X, y, parent_mask, feature_name, cuts[k])])

\* what __rank_split returns for each cut of the declared vocabulary
rank_scored(self, X, y, parent_mask, feature_name) ==
    ScoredCuts(self, X, y, parent_mask, feature_name,
               rank_partition(self.rank_feature_names[feature_name]))

best_rank_split(self, X, y, parent_mask, feature_name) ==
    BestCandidate(rank_scored(self, X, y, parent_mask, feature_name), NoSplit)

\* X[feature_name] <= threshold and > threshold: both are False on NaN
LeThreshold(v, threshold) == v # NaN /\ v * threshold.d <= threshold.n
GtThreshold(v, threshold) == v # NaN /\ v * threshold.d > threshold.n

\* points = sorted(X.loc[mask_notna, feature_name].tolist())
points(X, parent_mask, feature_name) ==
    LET rows == SortedSet(parent_mask \ isna(X, parent_mask, feature_name))
    IN  Sorted(List([k \in 1..Len(rows) |-> Cell(X, rows[k], feature_name)]))

\* thresholds taken at the left point of each pair, not between the two
thresholds_at_points(points_) ==
    List([i \in 1..(Len(points_) - 1) |-> Rat(points_[i], 1)])

\* thresholds = [(points[i] + points[i + 1]) / 2 for i in range(len(points) - 1)]
thresholds(points_) ==
    List([i \in 1..(Len(points_) - 1) |-> Rat(points_[i] + points_[i + 1], 2)])

\* the child masks of a threshold and whether the candidate is given up
threshold_masks(self, X, parent_mask, feature_name, threshold) ==
    LET mask_na == isna(X, parent_mask, feature_name)
        mask_less_na ==
            {i \in parent_mask : LeThreshold(Cell(X, i, feature_name), threshold)}
                \cup mask_na
        mask_more_na ==
            {i \in parent_mask : GtThreshold(Cell(X, i, feature_name), threshold)}
                \cup mask_na
    IN  [skip |-> TooSmall(self, <<mask_less_na, mask_more_na>>),
         masks |-> <<mask_less_na, mask_more_na>>,
         feature_values |-> << <<LeText(threshold)>>, <<GtText(threshold)>> >>]

\* for threshold in thresholds: the candidates not given up, with their gain
ScoredThresholds(self, X, y, parent_mask, feature_name, ts) ==
    LET kept == SelectSeq(List([k \in 1..Len(ts) |->
                                   threshold_masks(self, X, parent_mask, feature_name,
                                                   ts[k])]),
                          LAMBDA c : ~c.skip)
    IN  List([k \in 1..Len(kept) |->
                 [inf_gain |-> information_gain(self, y, parent_mask, kept[k].masks),
                  masks |-> kept[k].masks, feature_values |-> kept[k].feature_values,
                  of |-> "text"]])

\* the thresholds whose gain the loop computes, with their gain
numerical_scored(self, X, y, parent_mask, feature_name) ==
    ScoredThresholds(self, X, y, parent_mask, feature_name,
                     thresholds(points(X, parent_mask, feature_name)))

numerical_split(self, X, y, parent_mask, feature_name) ==
    BestCandidate(numerical_scored(self, X, y, parent_mask, feature_name), NoSplit)

\* ------------------------------------------------------------ split selector
NoFeature ==
    [feature |-> None, masks |-> <<>>, feature_values |-> <<>>, of |-> "str",
     inf_gain |-> RZero]

\* the evaluator of one feature.  _check_fit_params has every column declared in
\* a group of the call, and fit stores every group that names a feature, so the
\* last branch of the code (assert False) is never taken.
FeatureSplit(self, X, y, parent_mask, feature_name) ==
    IF feature_name \in DOMAIN self.cat_feature_names
    THEN best_categorical_split(self, X, y, parent_mask, feature_name)
    ELSE IF feature_name \in DOMAIN self.rank_feature_names
    THEN best_rank_split(self, X, y, parent_mask, feature_name)
    ELSE numerical_split(self, X, y, parent_mask, feature_name)

\* SplitLoop in which a feature of equal gain replaces the incumbent
RECURSIVE SplitLoopLastWins(_, _, _, _, _, _)
SplitLoopLastWins(self, X, y, parent_mask, names, best) ==
    IF names = <<>> THEN best
    ELSE LET feature_name == Head(names)
             r == FeatureSplit(self, X, y, parent_mask, feature_name)
         IN  SplitLoopLastWins(self, X, y, parent_mask, Tail(names),
                 IF /\ RLeq(self.min_impurity_decrease, r.inf_gain)
                    /\ RLeq(best.inf_gain, r.inf_gain)
                 THEN [feature |-> feature_name, masks |-> r.masks,
                       feature_values |-> r.feature_values, of |-> r.of,
                       inf_gain |-> r.inf_gain]
                 ELSE best)

RECURSIVE SplitLoop(_, _, _, _, _, _)
SplitLoop(self, X, y, parent_mask, names, best) ==
    IF names = <<>> THEN best
    ELSE LET feature_name == Head(names)
             r == FeatureSplit(self, X, y, parent_mask, feature_name)
         IN  SplitLoop(self, X, y, parent_mask, Tail(names),
                 IF /\ RLeq(self.min_impurity_decrease, r.inf_gain)
                    /\ RLess(best.inf_gain, r.inf_gain)
                 THEN [feature |-> feature_name, masks |-> r.masks,
                       feature_values |-> r.feature_values, of |-> r.of,
                       inf_gain |-> r.inf_gain]
                 ELSE best)

split(self, X, y, parent_mask, available_feature_names) ==
    SplitLoop(self, X, y, parent_mask, available_feature_names, NoFeature)

\* ------------------------------------------------------------ tree builder
Node(feature, feature_value, impurity_, samples, distribution_, label_, childs) ==
    [feature |-> feature, feature_value |-> feature_value, impurity |-> impurity_,
     samples |-> samples, distribution |-> distribution_, label |-> label_,
     childs |-> childs]

\* dict.pop(key)
Pop(dict, key) == [k \in DOMAIN dict \ {key} |-> dict[k]]

\* generate_node returns the node; the accumulator self.__feature_importances
\* it adds to on the way is threaded through as fi.  The list
\* available_feature_names and the dict special_cases are objects the caller
\* shares with the call: generate_node also returns what the two objects it
\* received hold when it returns (available, special).
RECURSIVE generate_node(_, _, _, _, _, _, _, _, _)
RECURSIVE SplitNode(_, _, _, _, _, _, _, _, _, _)
RECURSIVE GenerateChilds(_, _, _, _, _, _, _, _, _)

\* the node of a subset with the given split feature and children.  rows is not
\* an attribute of the code's Node: it records parent_mask, the subset the node
\* was built on, for the properties that speak of the rows of a node.
NodeOf(self, y, parent_mask, feature, feature_value, childs) ==
    Node(feature, feature_value, impurity(self, y, parent_mask), Cardinality(parent_mask),
         distribution(self, y, parent_mask), label(y, parent_mask), childs)
        @@ [rows |-> parent_mask]

\* like rows, available and special are no attributes of the code's Node: they
\* record the arguments available_feature_names and special_cases as the call
\* that made the node received them
CalledWith(node, available_feature_names, special_cases) ==
    node @@ [available |-> available_feature_names, special |-> special_cases]

\* the name is assigned no copy: what the rest of the call does to it is done
\* to the object received
WithoutCopy(received, changed) == changed

\* `x = x.copy()`: what the object received holds once the rest of the call has
\* changed x -- what it held, the changes are made to the copy
AfterCopy(received, changed) == received

generate_node(self, X, y, parent_mask, feature_value, depth, available_feature_names, special_cases, fi) ==
    IF /\ Cardinality(parent_mask) >= self.min_samples_split
       /\ (Falsy(self.max_depth) \/ depth <= self.max_depth)
    THEN SplitNode(self, X, y, parent_mask, feature_value, depth,
                   available_feature_names, special_cases, fi,
                   split(self, X, y, parent_mask, available_feature_names))
    ELSE [node |-> CalledWith(NodeOf(self, y, parent_mask, None, feature_value, <<>>),
                              available_feature_names, special_cases),
          fi |-> fi, available |-> available_feature_names, special |-> special_cases]

\* the rest of generate_node once __split has returned s
SplitNode(self, X, y, parent_mask, feature_value, depth, available_feature_names, special_cases, fi, s) ==
    IF s.feature = None
    THEN [node |-> CalledWith(NodeOf(self, y, parent_mask, None, feature_value, <<>>),
                              available_feature_names, special_cases),
          fi |-> fi, available |-> available_feature_names, special |-> special_cases]
    ELSE LET samples_num == Cardinality(parent_mask)
             fi1 == [fi EXCEPT ![s.feature] =
                        RAdd(@, RMul(Rat(samples_num, self.total_samples_num), s.inf_gain))]
             unlock == special_cases # <<>> /\ s.feature \in DOMAIN special_cases
             available1 == IF unlock
                           THEN available_feature_names \o special_cases[s.feature]
                           ELSE available_feature_names
             special1 == IF unlock THEN Pop(special_cases, s.feature) ELSE special_cases
             built == GenerateChilds(self, X, y, s.masks,
                          List([k \in 1..Len(s.feature_values) |->
                                   PyList(s.feature_values[k], s.of)]),
                          depth + 1, available1, special1,
                          [childs |-> <<>>, fi |-> fi1])
         IN  [node |-> CalledWith(NodeOf(self, y, parent_mask, s.feature, feature_value,
                                         built.childs),
                                  available_feature_names, special_cases),
              fi |-> built.fi,
              available |-> AfterCopy(available_feature_names, built.available),
              special |-> IF special_cases # <<>>
                          THEN AfterCopy(special_cases, built.special)
                          ELSE special_cases]

\* for mask, fv in zip(masks, feature_values): childs.append(generate_node(...))
\* every call is handed the same two objects, available_feature_names and
\* special_cases, which hold what the calls before it have left in them
GenerateChilds(self, X, y, masks, feature_values, depth, available_feature_names, special_cases, acc) ==
    IF masks = <<>> \/ feature_values = <<>>
    THEN [childs |-> acc.childs, fi |-> acc.fi,
          available |-> available_feature_names, special |-> special_cases]
    ELSE LET child == generate_node(self, X, y, Head(masks), Head(feature_values), depth,
                                    available_feature_names, special_cases, acc.fi)
         IN  GenerateChilds(self, X, y, Tail(masks), Tail(feature_values), depth,
                            child.available, child.special,
                            [childs |-> Append(acc.childs, child.node), fi |-> child.fi])

\* ------------------------------------------------------------ fit
\* The checks of _check_fit_params on the shape of the declarations (dict, list,
\* str) pass on every argument drawn here; the ones below are those that depend
\* on X and y.
check_fit_params(X, y, categorical_feature_names, rank_feature_names, numerical_feature_names, special_cases) ==
    LET setted_feature_names ==
            DOMAIN categorical_feature_names \cup DOMAIN rank_feature_names
                \cup Range(numerical_feature_names)
    IN  IF X.type # "DataFrame" THEN "ValueError"
        ELSE IF y.type # "Series" THEN "ValueError"
        ELSE IF Len(X.rows) # Len(y.values) THEN "ValueError"
        ELSE IF /\ categorical_feature_names = <<>>
                /\ rank_feature_names = <<>>
                /\ numerical_feature_names = <<>> THEN "ValueError"
        ELSE IF \E feature_name \in setted_feature_names :
                    feature_name \notin Range(X.columns) THEN "ValueError"
        ELSE IF \E feature_name \in Range(X.columns) :
                    feature_name \notin setted_feature_names THEN "ValueError"
        ELSE "ok"

\* sorted(y.unique()): class names are strings, ClassOrder lists them in
\* lexicographic order
ClassOrder == <<"neg", "pos">>
SortedClasses(y) == SelectSeq(ClassOrder, LAMBDA c : c \in Range(y.values))

\* RemoveAll that leaves every name in the list
RemoveNone(available, names) == [raised |-> FALSE, list |-> available]

\* RemoveAll that passes over a name that is not in the list
RECURSIVE DiscardAll(_, _)
DiscardAll(available, names) ==
    IF names = <<>> THEN [raised |-> FALSE, list |-> available]
    ELSE IF Head(names) \notin Range(available) THEN DiscardAll(available, Tail(names))
    ELSE DiscardAll(Remove(available, Head(names)), Tail(names))

\* available_feature_names.remove(name) for every name of names, in turn;
\* list.remove raises ValueError when the name is not in the list
RECURSIVE RemoveAll(_, _)
RemoveAll(available, names) ==
    IF names = <<>> THEN [raised |-> FALSE, list |-> available]
    ELSE IF Head(names) \notin Range(available) THEN [raised |-> TRUE, list |-> available]
    ELSE RemoveAll(Remove(available, Head(names)), Tail(names))

\* the values of special_cases, one after the other
GatedNames(special_cases) ==
    Concat([k \in 1..Cardinality(DOMAIN special_cases) |->
               special_cases[SetToSeqOfNames(DOMAIN special_cases)[k]]])

\* the object once fit has stored the fitted metadata
Assigned(self, X, y, categorical_feature_names, rank_feature_names, numerical_feature_names) ==
    [self EXCEPT
        !.feature_names = X.columns,
        !.class_names = SortedClasses(y),
        !.cat_feature_names =
            IF categorical_feature_names # <<>> THEN categorical_feature_names ELSE @,
        !.rank_feature_names =
            IF rank_feature_names # <<>> THEN rank_feature_names ELSE @,
        !.num_feature_names =
            IF numerical_feature_names # <<>> THEN numerical_feature_names ELSE @,
        !.total_samples_num = Len(X.rows),
        !.feature_importances = [f \in Range(X.columns) |-> RZero]]

\* the object once __generate_node has returned the root
Grown(self, root) ==
    [self |-> [self EXCEPT !.tree = <<root.node>>, !.feature_importances = root.fi],
     raised |-> None, special_cases |-> root.special]

\* fit from the removal of the gated features on
GrowTree(self, X, y, special_cases, removed) ==
    IF removed.raised
    THEN [self |-> self, raised |-> "ValueError", special_cases |-> special_cases]
    ELSE Grown(self, generate_node(self, X, y.values, 1..Len(X.rows), PyNone, 1,
                                   removed.list, special_cases, self.feature_importances))

\* fit returns the object it leaves, the exception it raises, if any, and what
\* the dict the caller passed as special_cases holds afterwards
fit(self, X, y, categorical_feature_names, rank_feature_names, numerical_feature_names, special_cases) ==
    IF check_fit_params(X, y, categorical_feature_names, rank_feature_names,
                        numerical_feature_names, special_cases) # "ok"
    THEN [self |-> self, raised |-> "ValueError", special_cases |-> special_cases]
    ELSE GrowTree(Assigned(self, X, y, categorical_feature_names, rank_feature_names,
                           numerical_feature_names),
                  X, y, special_cases,
                  RemoveAll(X.columns, GatedNames(special_cases)))

\* ------------------------------------------------------------ predict
\* A point is a pd.Series: its dtype, the type of each of its items and the
\* items, a function on its index.
SeriesDtype(dtypes) ==
    IF \A c \in DOMAIN dtypes : dtypes[c] = "float" THEN "float64" ELSE "object"

Point(values, dtypes) == [dtype |-> SeriesDtype(dtypes), dtypes |-> dtypes, v |-> values]

\* for child in node.childs: if child.feature_value == value: ... break
\* the number of the first child that compares equal, 0 when the loop ends
\* without one, -1 when a comparison raises
RECURSIVE MatchLoop(_, _, _)
MatchLoop(childs, k, value) ==
    IF k > Len(childs) THEN 0
    ELSE LET eq == ListEqScalar(childs[k].feature_value, value)
         IN  IF eq = "ValueError" THEN 0 - 1
             ELSE IF eq = "True" THEN k
             ELSE MatchLoop(childs, k + 1, value)

\* the else branch of the loop: no child was taken
NoMatch(node) == node.label

\* float(node.childs[0].feature_value[0][3:]): the threshold, or the exception
\* raised when the item is not the text of a threshold
Threshold(feature_value) ==
    IF feature_value.of = "text"
    THEN [raised |-> None,
          value |-> ParseFloat(SubSeq(feature_value.v[1], 4, Len(feature_value.v[1])))]
    ELSE [raised |-> IF feature_value.of = "str" THEN "ValueError" ELSE "TypeError",
          value |-> RZero]

\* __predict returns the label, or the name of the exception it raises.
RECURSIVE predict_node(_, _, _)
RECURSIVE Branch(_, _, _, _)
RECURSIVE Compare(_, _, _, _)

predict_node(self, node, point) ==
    IF node.feature = None THEN node.label
    ELSE IF node.feature \in DOMAIN self.cat_feature_names \cup DOMAIN self.rank_feature_names
    THEN IF node.feature \notin DOMAIN point.v THEN "KeyError"
         ELSE Branch(self, node, point,
                     MatchLoop(node.childs, 1,
                               PyScalar(point.v[node.feature], point.dtype)))
    ELSE IF node.feature \in Range(self.num_feature_names)
    THEN Compare(self, node, point, Threshold(node.childs[1].feature_value))
    ELSE "AssertionError"

\* the categorical / rank arm once the loop over the children has ended with m
Branch(self, node, point, m) ==
    IF m < 0 THEN "ValueError"
    ELSE IF m = 0 THEN NoMatch(node)
    ELSE predict_node(self, node.childs[m], point)

\* the numerical arm once the threshold t has been read
Compare(self, node, point, t) ==
    IF t.raised # None THEN t.raised
    ELSE IF node.feature \notin DOMAIN point.v THEN "KeyError"
    ELSE IF point.dtypes[node.feature] = "str" /\ point.v[node.feature] # NaN
    THEN "TypeError"
    ELSE IF LeThreshold(point.v[node.feature], t.value)
    THEN predict_node(self, node.childs[1], point)
    ELSE IF GtThreshold(point.v[node.feature], t.value)
    THEN predict_node(self, node.childs[2], point)
    ELSE "AssertionError"

Exceptions == {"ValueError", "KeyError", "AssertionError", "AttributeError",
               "ZeroDivisionError", "TypeError"}

\* predict(point) of a pd.Series
predict(self, point) ==
    IF self.tree = <<>> THEN "AttributeError"
    ELSE predict_node(self, self.tree[1], point)

\* predict(X) of a pd.DataFrame: the list of the rows' labels, or the first
\* exception a row raises
predict_frame(self, X) ==
    LET y_pred == List([i \in 1..Len(X.rows) |->
                           predict(self, Point(X.rows[i], X.dtypes))])
        bad == {i \in DOMAIN y_pred : y_pred[i] \in Exceptions}
    IN  IF bad = {} THEN [raised |-> None, y_pred |-> y_pred]
        ELSE [raised |-> y_pred[CHOOSE i \in bad : \A j \in bad : i <= j], y_pred |-> <<>>]

\* ------------------------------------------------------------ score
score(self, X, y) ==
    IF X.type # "DataFrame" THEN [raised |-> "ValueError", score |-> RZero]
    ELSE IF y.type # "Series" THEN [raised |-> "ValueError", score |-> RZero]
    ELSE IF Len(X.rows) # Len(y.values) THEN [raised |-> "ValueError", score |-> RZero]
    ELSE LET p == predict_frame(self, X)
         IN  IF p.raised # None THEN [raised |-> p.raised, score |-> RZero]
             ELSE [raised |-> None,
                   score |-> Rat(Cardinality({i \in DOMAIN p.y_pred :
                                                  p.y_pred[i] = y.values[i]}),
                                 Len(X.rows))]

\* ------------------------------------------------------------ feature_importances
\* the number of the accumulators in place of their sum
ImportanceCount(fi) == Rat(Cardinality(DOMAIN fi), 1)

\* the sum of the accumulators, and 1 when that sum is 0
ImportanceTotalOrOne(fi) ==
    LET total == RSum([k \in 1..Cardinality(DOMAIN fi) |->
                          fi[SetToSeqOfNames(DOMAIN fi)[k]]])
    IN  IF total = RZero THEN Rat(1, 1) ELSE total

\* total = 0; for importance in ...values(): total += importance
ImportanceTotal(fi) ==
    RSum([k \in 1..Cardinality(DOMAIN fi) |-> fi[SetToSeqOfNames(DOMAIN fi)[k]]])

\* feature_importances that returns the accumulators as they are stored
feature_importances_stored(self) ==
    [self |-> self,
     raised |-> IF self.feature_importances = <<>> THEN "AttributeError" ELSE None]

\* the property: divides the stored accumulators by their sum, in place, and
\* returns them
feature_importances(self) ==
    IF self.feature_importances = <<>> THEN [self |-> self, raised |-> "AttributeError"]
    ELSE LET total == ImportanceTotal(self.feature_importances)
         IN  IF total = RZero THEN [self |-> self, raised |-> "ZeroDivisionError"]
             ELSE [self |-> [self EXCEPT !.feature_importances =
                                 [f \in DOMAIN @ |-> RDiv(@[f], total)]],
                   raised |-> None]

\* ------------------------------------------------------------ get_params, set_params
\* The parameters are stored in private attributes (self.__max_depth, whose name
\* Python mangles); self.attrs holds the attributes setattr creates under the
\* plain names.
get_params(self) ==
    [max_depth |-> self.max_depth, criterion |-> self.criterion,
     min_samples_split |-> self.min_samples_split,
     min_samples_leaf |-> self.min_samples_leaf,
     min_impurity_decrease |-> self.min_impurity_decrease]

\* setattr(self, param, value)
SetAttr(self, param, value) ==
    [self EXCEPT !.attrs = [k \in DOMAIN @ \cup {param} |->
                               IF k = param THEN value ELSE @[k]]]

\* set_params(**params), params a sequence of <<name, value>>: the loop stops at
\* the first name get_params does not list
RECURSIVE set_params(_, _)
set_params(self, params) ==
    IF params = <<>> THEN [self |-> self, raised |-> None]
    ELSE IF Head(params)[1] \notin DOMAIN get_params(self)
    THEN [self |-> self, raised |-> "ValueError"]
    ELSE set_params(SetAttr(self, Head(params)[1], Head(params)[2]), Tail(params))

\* ------------------------------------------------------------ constructor
check_init_params(max_depth, criterion, min_samples_split, min_samples_leaf, min_impurity_decrease, max_childs) ==
    IF criterion \notin {"entropy", "gini"} THEN "ValueError"
    ELSE IF min_samples_split <= 1 THEN "ValueError"
    ELSE IF min_samples_leaf <= 0 THEN "ValueError"
    ELSE IF RLess(min_impurity_decrease, RZero) THEN "ValueError"
    ELSE IF min_samples_split < 2 * min_samples_leaf THEN "ValueError"
    ELSE IF max_childs # NoneInt /\ max_childs < 2 THEN "ValueError"
    ELSE "ok"

\* the object __init__ leaves
Constructed(max_depth, criterion, min_samples_split, min_samples_leaf, min_impurity_decrease, max_childs) ==
    [max_depth |-> max_depth, criterion |-> criterion,
     min_samples_split |-> min_samples_split, min_samples_leaf |-> min_samples_leaf,
     min_impurity_decrease |-> min_impurity_decrease, max_childs |-> max_childs,
     feature_names |-> <<>>, class_names |-> <<>>,
     cat_feature_names |-> <<>>, rank_feature_names |-> <<>>, num_feature_names |-> <<>>,
     tree |-> <<>>, feature_importances |-> <<>>, total_samples_num |-> NoneInt,
     attrs |-> <<>>]

\* ------------------------------------------------------------ arguments drawn
\* Constructor arguments: (max_depth, min_samples_split, min_samples_leaf, max_childs);
\* criterion is 'gini' and min_impurity_decrease is 0.0, the defaults.
InitArgs ==
    {a \in {<<NoneInt, 2, 1, NoneInt>>, <<NoneInt, 4, 2, NoneInt>>, <<1, 2, 1, 2>>} :
        check_init_params(a[1], "gini", a[2], a[3], RZero, a[4]) = "ok"}

\* Rows the training tables are made of: the values of columns A and B and the label.
RowPool ==
    << [A |-> 1, B |-> 1, y |-> "neg"],
       [A |-> 2, B |-> 1, y |-> "pos"],
       [A |-> 3, B |-> 2, y |-> "pos"],
       [A |-> 4, B |-> 2, y |-> "pos"],
       [A |-> NaN, B |-> 3, y |-> "neg"] >>

Columns == <<"A", "B">>

DataFrame(rows, dtypes) ==
    [type |-> "DataFrame", columns |-> Columns, dtypes |-> dtypes,
     rows |-> [i \in DOMAIN rows |-> [A |-> rows[i].A, B |-> rows[i].B]]]
Series(rows) == [type |-> "Series", values |-> [i \in DOMAIN rows |-> rows[i].y]]

\* a training table: up to MaxRows consecutive rows of the pool
Windows ==
    {SubSeq(RowPool, w[1], w[2]) :
        w \in {w \in (1..Len(RowPool)) \X (1..Len(RowPool)) :
                  w[1] <= w[2] /\ w[2] - w[1] < MaxRows}}
Tables == {w \in Windows : Len(w) >= MaxRows - 1}

\* declared vocabularies
Vocabulary == [A |-> <<1, 2, 3, 4>>, B |-> <<1, 2, 3>>]

\* the three declaration arguments when column A is of kind a and B of kind b
Declared(a, b) ==
    LET kind == [A |-> a, B |-> b]
        Of(k) == {c \in {"A", "B"} : kind[c] = k}
    IN  [categorical_feature_names |-> [c \in Of("cat") |-> Vocabulary[c]],
         rank_feature_names |-> [c \in Of("rank") |-> Vocabulary[c]],
         numerical_feature_names |-> SetToSeqOfNames(Of("num"))]

Declarations ==
    {Declared("cat", "cat"), Declared("rank", "num"), Declared("num", "cat"),
     Declared("num", "num")}

\* declarations _check_fit_params is to refuse, and one it is to take as a
\* feature in two groups
BadDeclarations ==
    { \* nothing declared
      [categorical_feature_names |-> <<>>, rank_feature_names |-> <<>>,
       numerical_feature_names |-> <<>>],
      \* column B is declared nowhere
      [categorical_feature_names |-> [c \in {"A"} |-> Vocabulary[c]],
       rank_feature_names |-> <<>>, numerical_feature_names |-> <<>>],
      \* Z is declared and is no column
      [categorical_feature_names |-> [c \in {"A", "B"} |-> Vocabulary[c]],
       rank_feature_names |-> <<>>, numerical_feature_names |-> <<"Z">>],
      \* A is declared categorical and numerical
      [categorical_feature_names |-> [c \in {"A"} |-> Vocabulary[c]],
       rank_feature_names |-> <<>>, numerical_feature_names |-> <<"A", "B">>] }

\* special_cases: None, B gating A, and a gated name that is no column
SpecialCases == { <<>>, [c \in {"B"} |-> <<"A">>] }
BadSpecialCases == { [c \in {"A"} |-> <<"Z">>] }

\* the types of the columns of a table the declarations d are made for
Dtypes(d) ==
    [c \in Range(Columns) |->
        IF c \in DOMAIN d.categorical_feature_names \cup DOMAIN d.rank_feature_names
        THEN "str" ELSE "float"]

FitCall(X, y, d, special_cases) ==
    [X |-> X, y |-> y,
     categorical_feature_names |-> d.categorical_feature_names,
     rank_feature_names |-> d.rank_feature_names,
     numerical_feature_names |-> d.numerical_feature_names,
     special_cases |-> special_cases]

NotAFrame == [type |-> "str", columns |-> <<>>, dtypes |-> <<>>, rows |-> <<>>]
NotASeries == [type |-> "str", values |-> <<>>]

FirstTable == SubSeq(RowPool, 1, MaxRows)

FitCalls ==
    {FitCall(DataFrame(t, Dtypes(d)), Series(t), d, sc) :
        t \in Tables, d \in Declarations, sc \in SpecialCases}
    \cup {FitCall(DataFrame(FirstTable, Dtypes(d)), Series(FirstTable), d, sc) :
            d \in BadDeclarations, sc \in {<<>>}}
    \cup {FitCall(DataFrame(FirstTable, Dtypes(d)), Series(FirstTable), d, sc) :
            d \in {Declared("cat", "num"), Declared("num", "cat")}, sc \in BadSpecialCases}
    \cup {FitCall(X, y, Declared("cat", "cat"), <<>>) :
            X \in {NotAFrame}, y \in {Series(FirstTable)}}
    \cup {FitCall(X, y, Declared("cat", "cat"), <<>>) :
            X \in {DataFrame(FirstTable, Dtypes(Declared("cat", "cat")))},
            y \in {NotASeries, Series(SubSeq(FirstTable, 1, Len(FirstTable) - 1))}}

\* ------------------------------------------------------------ state
VARIABLES
    self,      \* the classifier object
    last,      \* the last call made on it: its name, arguments and outcome
    train,     \* the arguments of the last fit that returned
    fits,      \* number of fit calls made
    queries    \* number of predict / score / feature_importances calls made

vars == <<self, last, train, fits, queries>>

NoCall == [op |-> "init", args |-> <<>>, raised |-> None, result |-> <<>>]

Init ==
    /\ \E a \in InitArgs : self = Constructed(a[1], "gini", a[2], a[3], RZero, a[4])
    /\ last = NoCall
    /\ train = <<>>
    /\ fits = 0
    /\ queries = 0

\* the call returned or raised: r is what it leaves
Returned(op, args, r, result) ==
    /\ self' = r.self
    /\ last' = [op |-> op, args |-> args, raised |-> r.raised, result |-> result]
    /\ train' = IF op = "fit" /\ r.raised = None THEN <<args>> ELSE train

\* fit returns None; the call is recorded with what the dict passed as
\* special_cases holds once it has returned or raised
FitReturned(c, r) == Returned("fit", c, r, <<r.special_cases>>)

Fit ==
    /\ fits < MaxFits
    /\ queries = 0
    /\ \E c \in FitCalls :
        FitReturned(c, fit(self, c.X, c.y, c.categorical_feature_names,
                           c.rank_feature_names, c.numerical_feature_names,
                           c.special_cases))
    /\ fits' = fits + 1
    /\ UNCHANGED queries

\* a point to predict: a pd.Series over the columns of the table the model was
\* fitted on and of its types, each value missing, 1 or 4
PointValues == {NaN, 1, 4}
Points ==
    {Point(values, IF train # <<>> THEN train[1].X.dtypes
                   ELSE [c \in Range(Columns) |-> "str"]) :
        values \in [Range(Columns) -> PointValues]}

PredictReturned(point, Y) ==
    Returned("predict", point,
             [self |-> self, raised |-> IF Y \in Exceptions THEN Y ELSE None], <<Y>>)

Predict ==
    /\ queries < MaxQueries
    /\ \E point \in Points : PredictReturned(point, predict(self, point))
    /\ queries' = queries + 1
    /\ UNCHANGED fits

\* X with its column A renamed Z
Renamed(X) ==
    LET old(c) == IF c = "Z" THEN "A" ELSE c
        columns == [k \in DOMAIN X.columns |->
                       IF X.columns[k] = "A" THEN "Z" ELSE X.columns[k]]
    IN  [type |-> "DataFrame", columns |-> columns,
         dtypes |-> [c \in Range(columns) |-> X.dtypes[old(c)]],
         rows |-> [i \in DOMAIN X.rows |-> [c \in Range(columns) |-> X.rows[i][old(c)]]]]

\* the data the model was fitted on, or a table when it was not
ScoreData ==
    IF train # <<>> THEN train[1]
    ELSE FitCall(DataFrame(FirstTable, Dtypes(Declared("cat", "cat"))), Series(FirstTable),
                 Declared("cat", "cat"), <<>>)

ScoreCalls ==
    LET X == ScoreData.X
        y == ScoreData.y
    IN  { [X |-> X, y |-> y],
          [X |-> NotAFrame, y |-> y],
          [X |-> X, y |-> NotASeries],
          [X |-> X, y |-> [y EXCEPT !.values = SubSeq(@, 1, Len(@) - 1)]],
          [X |-> Renamed(X), y |-> y] }

ScoreReturned(c, r) ==
    Returned("score", c, [self |-> self, raised |-> r.raised], <<r.score>>)

Score ==
    /\ queries < MaxQueries
    /\ \E c \in ScoreCalls : ScoreReturned(c, score(self, c.X, c.y))
    /\ queries' = queries + 1
    /\ UNCHANGED fits

ImportancesReturned(r) ==
    Returned("feature_importances", <<>>, r,
             IF r.raised = None THEN <<r.self.feature_importances>> ELSE <<>>)

ReadImportances ==
    /\ queries < MaxQueries
    /\ ImportancesReturned(feature_importances(self))
    /\ queries' = queries + 1
    /\ UNCHANGED fits

Next == Fit \/ Predict \/ Score \/ ReadImportances

Spec == Init /\ [][Next]_vars

\* ------------------------------------------------------------ worked tables
\* A second specification: the classifier fitted on small tables written out row
\* by row, with the parameter calls get_params and set_params.

\* Constructor arguments: (max_depth, min_samples_split, min_samples_leaf,
\* min_impurity_decrease, max_childs); criterion is 'gini'.
ExampleInitArgs ==
    {a \in {<<NoneInt, 2, 1, RZero, NoneInt>>, <<0, 2, 1, RZero, NoneInt>>,
            <<1, 2, 1, RZero, 2>>, <<0 - 1, 2, 1, RZero, NoneInt>>,
            <<NoneInt, 4, 2, Rat(1, 10), NoneInt>>} :
        check_init_params(a[1], "gini", a[2], a[3], a[4], a[5]) = "ok"}

Frame(columns, rows, dtypes) ==
    [type |-> "DataFrame", columns |-> columns, dtypes |-> dtypes,
     rows |-> [i \in DOMAIN rows |-> [c \in Range(columns) |-> rows[i][c]]]]

NoDeclaration ==
    [categorical_feature_names |-> <<>>, rank_feature_names |-> <<>>,
     numerical_feature_names |-> <<>>]

\* one numerical feature, two rows of each class
FourRows ==
    << [A |-> 1, y |-> "neg"], [A |-> 2, y |-> "neg"],
       [A |-> 10, y |-> "pos"], [A |-> 11, y |-> "pos"] >>
FourRowsCall ==
    FitCall(Frame(<<"A">>, FourRows, [A |-> "float"]), Series(FourRows),
            [NoDeclaration EXCEPT !.numerical_feature_names = <<"A">>], <<>>)

\* one numerical feature with a value that occurs twice
RepeatedRows ==
    << [A |-> 1, y |-> "neg"], [A |-> 2, y |-> "neg"], [A |-> 4, y |-> "neg"],
       [A |-> 4, y |-> "neg"], [A |-> 10, y |-> "pos"] >>
RepeatedRowsCall ==
    FitCall(Frame(<<"A">>, RepeatedRows, [A |-> "float"]), Series(RepeatedRows),
            [NoDeclaration EXCEPT !.numerical_feature_names = <<"A">>], <<>>)

\* two numerical features that separate the classes equally well
TwinRows ==
    << [A |-> 1, B |-> 3, y |-> "neg"], [A |-> 2, B |-> 4, y |-> "pos"],
       [A |-> 3, B |-> 5, y |-> "pos"] >>
TwinRowsCall ==
    FitCall(Frame(<<"A", "B">>, TwinRows, [A |-> "float", B |-> "float"]),
            Series(TwinRows),
            [NoDeclaration EXCEPT !.numerical_feature_names = <<"A", "B">>], <<>>)

\* rows of one class
PureRows ==
    << [A |-> 1, B |-> 3, y |-> "pos"], [A |-> 2, B |-> 4, y |-> "pos"] >>
PureRowsCall ==
    FitCall(Frame(<<"A", "B">>, PureRows, [A |-> "float", B |-> "float"]),
            Series(PureRows),
            [NoDeclaration EXCEPT !.numerical_feature_names = <<"A", "B">>], <<>>)

\* one feature of four tokens, categorical or rank
TokenRows ==
    << [A |-> 1, y |-> "neg"], [A |-> 2, y |-> "pos"],
       [A |-> 3, y |-> "neg"], [A |-> 4, y |-> "pos"] >>
CategoricalCall ==
    FitCall(Frame(<<"A">>, TokenRows, [A |-> "str"]), Series(TokenRows),
            [NoDeclaration EXCEPT !.categorical_feature_names = [A |-> <<1, 2, 3, 4>>]],
            <<>>)
RankRows ==
    << [A |-> 1, y |-> "neg"], [A |-> 2, y |-> "pos"],
       [A |-> 3, y |-> "pos"], [A |-> 4, y |-> "pos"] >>
RankCall ==
    FitCall(Frame(<<"A">>, RankRows, [A |-> "str"]), Series(RankRows),
            [NoDeclaration EXCEPT !.rank_feature_names = [A |-> <<1, 2, 3, 4>>]], <<>>)

\* one numerical feature whose classes alternate: no single threshold
\* separates them
AlternatingRows ==
    << [A |-> 1, y |-> "neg"], [A |-> 2, y |-> "pos"], [A |-> 3, y |-> "neg"] >>
AlternatingRowsCall ==
    FitCall(Frame(<<"A">>, AlternatingRows, [A |-> "float"]), Series(AlternatingRows),
            [NoDeclaration EXCEPT !.numerical_feature_names = <<"A">>], <<>>)

\* one numerical feature and a row without a value: the best threshold copies
\* that row into both children
MissingRows ==
    << [A |-> 1, y |-> "neg"], [A |-> 2, y |-> "neg"], [A |-> 3, y |-> "pos"],
       [A |-> 4, y |-> "pos"], [A |-> NaN, y |-> "neg"] >>
MissingRowsCall ==
    FitCall(Frame(<<"A">>, MissingRows, [A |-> "float"]), Series(MissingRows),
            [NoDeclaration EXCEPT !.numerical_feature_names = <<"A">>], <<>>)

\* B parts the rows that have a value for A from the row that has none, and A
\* splits below
LateRows ==
    << [A |-> 1, B |-> 1, y |-> "neg"], [A |-> 2, B |-> 1, y |-> "neg"],
       [A |-> 3, B |-> 1, y |-> "pos"], [A |-> NaN, B |-> 2, y |-> "neg"],
       [A |-> 0, B |-> 2, y |-> "pos"] >>
LateRowsCall ==
    FitCall(Frame(<<"A", "B">>, LateRows, [A |-> "float", B |-> "float"]),
            Series(LateRows),
            [NoDeclaration EXCEPT !.numerical_feature_names = <<"A", "B">>], <<>>)

\* three numerical features under a hierarchy.  B parts rows 1, 2 from rows
\* 3, 4, 5; A separates the classes of rows 1, 2 and is the same in rows 3, 4, 5,
\* whose classes only C separates
GatedRows ==
    << [A |-> 1, B |-> 1, C |-> 1, y |-> "neg"], [A |-> 2, B |-> 1, C |-> 1, y |-> "pos"],
       [A |-> 1, B |-> 2, C |-> 1, y |-> "pos"], [A |-> 1, B |-> 2, C |-> 1, y |-> "pos"],
       [A |-> 1, B |-> 2, C |-> 2, y |-> "neg"] >>
GatedFrame ==
    Frame(<<"A", "B", "C">>, GatedRows, [A |-> "float", B |-> "float", C |-> "float"])
GatedCall(special_cases) ==
    FitCall(GatedFrame, Series(GatedRows),
            [NoDeclaration EXCEPT !.numerical_feature_names = <<"A", "B", "C">>],
            special_cases)

\* special_cases={'B': ['A'], 'A': ['C']}: B unlocks A, A unlocks C
ChainCall == GatedCall([B |-> <<"A">>, A |-> <<"C">>])
\* special_cases={'A': ['C'], 'B': ['C']} and {'A': ['B', 'C'], 'B': ['C']}: C is
\* to be unlocked by A and by B
TwiceGatedCalls ==
    {GatedCall([A |-> <<"C">>, B |-> <<"C">>]),
     GatedCall([A |-> <<"B", "C">>, B |-> <<"C">>])}

\* one numerical feature of three values, the middle one in a row of each class
MixedRows ==
    << [A |-> 1, y |-> "neg"], [A |-> 2, y |-> "neg"],
       [A |-> 2, y |-> "pos"], [A |-> 3, y |-> "pos"] >>
MixedRowsCall ==
    FitCall(Frame(<<"A">>, MixedRows, [A |-> "float"]), Series(MixedRows),
            [NoDeclaration EXCEPT !.numerical_feature_names = <<"A">>], <<>>)

ExampleCalls ==
    {FourRowsCall, RepeatedRowsCall, TwinRowsCall, PureRowsCall, CategoricalCall,
     RankCall, AlternatingRowsCall, MissingRowsCall, LateRowsCall, ChainCall,
     MixedRowsCall}
        \cup TwiceGatedCalls

ExampleInit ==
    /\ \E a \in ExampleInitArgs : self = Constructed(a[1], "gini", a[2], a[3], a[4], a[5])
    /\ last = NoCall
    /\ train = <<>>
    /\ fits = 0
    /\ queries = 0

\* fit is called before the parameters are read and the model is scored
FitExample ==
    /\ fits < MaxFits
    /\ last.op \in {"init", "fit", "set_params"}
    /\ \E c \in ExampleCalls :
        FitReturned(c, fit(self, c.X, c.y, c.categorical_feature_names,
                           c.rank_feature_names, c.numerical_feature_names,
                           c.special_cases))
    /\ fits' = fits + 1
    /\ UNCHANGED queries

\* set_params(max_depth=1), (min_samples_split=4), (max_depth=1, max_childs=2)
SetParamsCalls ==
    { << <<"max_depth", 1>> >>, << <<"min_samples_split", 4>> >>,
      << <<"max_depth", 1>>, <<"max_childs", 2>> >> }

\* the parameters are set before anything is read
SetParams ==
    /\ queries < MaxQueries
    /\ queries = 0
    /\ \E params \in SetParamsCalls :
        Returned("set_params", params, set_params(self, params), <<>>)
    /\ queries' = queries + 1
    /\ UNCHANGED fits

GetParams ==
    /\ queries < MaxQueries
    /\ Returned("get_params", <<>>, [self |-> self, raised |-> None], <<get_params(self)>>)
    /\ queries' = queries + 1
    /\ UNCHANGED fits

\* score(X, y) on the table the model was fitted on
ScoreTrain ==
    /\ queries < MaxQueries
    /\ train # <<>>
    /\ ScoreReturned([X |-> train[1].X, y |-> train[1].y],
                     score(self, train[1].X, train[1].y))
    /\ queries' = queries + 1
    /\ UNCHANGED fits

ExampleNext == FitExample \/ SetParams \/ GetParams \/ ScoreTrain

ExampleSpec == ExampleInit /\ [][ExampleNext]_vars

\* ------------------------------------------------------------ reading a tree
Fitted == self.tree # <<>>
Root == self.tree[1]

RECURSIVE Nodes(_)
Nodes(node) == {node} \cup UNION {Nodes(node.childs[k]) : k \in DOMAIN node.childs}

IsInternal(node) == node.feature # None

\* the node splits on a categorical or rank feature: the branch descriptors of
\* its children are blocks of tokens
SplitsOnBlocks(node) ==
    IsInternal(node) /\ node.childs[1].feature_value.of = "str"

\* the node was split by the numerical evaluator: the branch descriptors of its
\* children are the texts of a threshold
SplitsOnThreshold(node) ==
    IsInternal(node) /\ node.childs[1].feature_value.of = "text"

\* the point's value for the node's feature belongs to the block of the child
InBlock(child, point, feature) ==
    /\ point.v[feature] # NaN
    /\ point.dtypes[feature] = child.feature_value.of
    /\ point.v[feature] \in Range(child.feature_value.v)

\* the threshold stored in the branch descriptors of a numerical node
StoredThreshold(node) ==
    ParseFloat(SubSeq(node.childs[1].feature_value.v[1], 4,
                      Len(node.childs[1].feature_value.v[1])))

\* ------------------------------------------------------------ claims

\* C1: during predict, at a node split on a categorical or rank feature, a point
\* whose value belongs to the block of a child gets the label computed in that
\* child's subtree (stated for the subtrees that compute a label), not the
\* node's own label.
C1_MatchingChildIsFollowed ==
    (last.op = "predict" /\ Fitted /\ SplitsOnBlocks(Root)) =>
        \A k \in DOMAIN Root.childs :
            (/\ InBlock(Root.childs[k], last.args, Root.feature)
             /\ predict_node(self, Root.childs[k], last.args) \notin Exceptions)
                => last.result = <<predict_node(self, Root.childs[k], last.args)>>

\* C2: during predict, at a node split on a categorical or rank feature, a point
\* whose value, a token not seen in training, belongs to no child's block gets
\* the node's own label, and predict raises nothing.
C2_UnseenValueGetsNodeLabel ==
    (last.op = "predict" /\ Fitted /\ SplitsOnBlocks(Root)) =>
        ((/\ last.args.v[Root.feature] # NaN
          /\ \A k \in DOMAIN Root.childs :
                ~InBlock(Root.childs[k], last.args, Root.feature))
            => last.raised = None /\ last.result = <<Root.label>>)

\* C3: during predict, at a node split on a numerical feature with threshold T,
\* every point goes into exactly one child: child 0 when its value is <= T,
\* child 1 when it is > T, and one of the two when the value is missing; the
\* node itself raises nothing.
C3_NumericalRouting ==
    (last.op = "predict" /\ Fitted /\ SplitsOnThreshold(Root)) =>
        LET v == last.args.v[Root.feature]
            left == <<predict_node(self, Root.childs[1], last.args)>>
            right == <<predict_node(self, Root.childs[2], last.args)>>
        IN  /\ LeThreshold(v, StoredThreshold(Root)) => last.result = left
            /\ GtThreshold(v, StoredThreshold(Root)) => last.result = right
            /\ v = NaN => last.result \in {left, right}

\* the gated features of the hierarchy: the names in the values of special_cases
Gated(special_cases) == UNION {Range(special_cases[H]) : H \in DOMAIN special_cases}

\* no node of the subtree splits on a gated feature unless a strict ancestor
\* splits on its gating feature; seen is the set of the features the strict
\* ancestors of node split on
RECURSIVE Respects(_, _, _)
Respects(node, special_cases, seen) ==
    \/ ~IsInternal(node)
    \/ /\ \A H \in DOMAIN special_cases :
            node.feature \in Range(special_cases[H]) => H \in seen
       /\ \A k \in DOMAIN node.childs :
            Respects(node.childs[k], special_cases, seen \cup {node.feature})

\* C4: in a tree fit built under a hierarchy mapping H to G, G is not among the
\* features eligible at the root, and no node splits on G unless a strict
\* ancestor of it splits on H.
C4_HierarchyUnlock ==
    train # <<>> =>
        /\ Gated(train[1].special_cases) \cap
               Range(RemoveAll(train[1].X.columns,
                               GatedNames(train[1].special_cases)).list) = {}
        /\ Respects(Root, train[1].special_cases, {})

\* a tree built under the hierarchy B -> A in which A, unlocked below a split
\* on B, is split on
C4_Witness ==
    /\ train # <<>>
    /\ train[1].special_cases # <<>>
    /\ Root.feature = "B"
    /\ \E k \in DOMAIN Root.childs : Root.childs[k].feature = "A"

\* the object a fresh instance of the same configuration holds after the call c
FreshFit(c) ==
    fit(Constructed(self.max_depth, self.criterion, self.min_samples_split,
                    self.min_samples_leaf, self.min_impurity_decrease, self.max_childs),
        c.X, c.y, c.categorical_feature_names, c.rank_feature_names,
        c.numerical_feature_names, c.special_cases).self

\* C5: after a second fit that returned, the object is the one a fresh instance
\* of the same configuration holds after the same fit call.
C5_RefitReplacesState ==
    (last.op = "fit" /\ last.raised = None /\ fits >= 2) => self = FreshFit(last.args)

\* C6: a fit call that raises leaves the object as it was before the call.
C6_FailedFitKeepsState ==
    [][(fits' = fits + 1 /\ last'.raised # None) => self' = self]_vars

\* the sum over the internal nodes of the subtree that split on feature of
\* (samples of the node / total_samples_num) * information gain of its split
NodeGain(node) ==
    RSub(node.impurity,
         RSum(List([k \in DOMAIN node.childs |->
                       RMul(Rat(node.childs[k].samples, node.samples),
                            node.childs[k].impurity)])))

RECURSIVE Contribution(_, _, _)
Contribution(node, feature, total_samples_num) ==
    IF ~IsInternal(node) THEN RZero
    ELSE RAdd(IF node.feature = feature
              THEN RMul(Rat(node.samples, total_samples_num), NodeGain(node))
              ELSE RZero,
              RSum(List([k \in DOMAIN node.childs |->
                            Contribution(node.childs[k], feature, total_samples_num)])))

\* the features the fit call c declares
DeclaredFeatures(c) ==
    DOMAIN c.categorical_feature_names \cup DOMAIN c.rank_feature_names
        \cup Range(c.numerical_feature_names)

\* C7: feature_importances read after a fit that made at least one split has
\* one entry per declared feature, every entry in [0, 1], the entries summing
\* to 1, an entry above 0 exactly for the features some node splits on, each
\* node having added (samples / total samples) * information gain to the
\* accumulator of its feature.
C7_Importances ==
    [][(/\ last.op = "fit" /\ last.raised = None /\ IsInternal(Root)
        /\ last'.op = "feature_importances")
       => /\ last'.raised = None
          /\ DOMAIN last'.result[1] = DeclaredFeatures(last.args)
          /\ ImportanceTotal(last'.result[1]) = Rat(1, 1)
          /\ \A f \in DOMAIN last'.result[1] :
                /\ RLeq(RZero, last'.result[1][f])
                /\ RLeq(last'.result[1][f], Rat(1, 1))
                /\ RLess(RZero, last'.result[1][f])
                       <=> \E node \in Nodes(Root) : node.feature = f
                /\ self.feature_importances[f] =
                       Contribution(Root, f, self.total_samples_num)]_vars

\* feature_importances has returned for a tree with a split: one feature has a
\* positive entry and the other a zero one
C7_Witness ==
    /\ last.op = "feature_importances" /\ last.raised = None
    /\ Fitted /\ IsInternal(Root)
    /\ \E f, g \in DOMAIN last.result[1] :
          RLess(RZero, last.result[1][f]) /\ last.result[1][g] = RZero

\* the schema errors of a fit call on a table: a column that is declared in no
\* group, a declared feature that is no column, a feature declared in more than
\* one group
UndeclaredColumn(c) == \E f \in Range(c.X.columns) : f \notin DeclaredFeatures(c)
DeclaredNoColumn(c) == \E f \in DeclaredFeatures(c) : f \notin Range(c.X.columns)
DeclaredTwice(c) ==
    \E f \in DeclaredFeatures(c) :
        \/ f \in DOMAIN c.categorical_feature_names \cap DOMAIN c.rank_feature_names
        \/ f \in DOMAIN c.categorical_feature_names \cap Range(c.numerical_feature_names)
        \/ f \in DOMAIN c.rank_feature_names \cap Range(c.numerical_feature_names)

\* C8: fit raises on each of the three schema errors.
C8_SchemaErrorsRejected ==
    (last.op = "fit" /\ last.args.X.type = "DataFrame") =>
        ((UndeclaredColumn(last.args) \/ DeclaredNoColumn(last.args)
              \/ DeclaredTwice(last.args))
            => last.raised = "ValueError")

\* C9: score on a fitted model raises ValueError when X is no table, y no label
\* vector, their lengths differ or the columns of X are not the fitted features,
\* and raises nothing on the data the model was fitted on.
C9_ScoreValidates ==
    (last.op = "score" /\ train # <<>>) =>
        /\ (\/ last.args.X.type # "DataFrame"
            \/ last.args.y.type # "Series"
            \/ Len(last.args.X.rows) # Len(last.args.y.values)
            \/ Range(last.args.X.columns) # Range(self.feature_names))
               => last.raised = "ValueError"
        /\ (last.args.X = train[1].X /\ last.args.y = train[1].y) => last.raised = None

\* C10: in a tree fit built, every child of every internal node has at least
\* min_samples_leaf samples.
C10_MinSamplesLeaf ==
    Fitted =>
        \A node \in Nodes(Root) :
            \A k \in DOMAIN node.childs : node.childs[k].samples >= self.min_samples_leaf

\* min_samples_leaf is 2 and the root splits rows 1..4 on A at 2.5 into two and
\* two, although the threshold 1.5, which leaves one row alone, has the greater
\* information gain
C10_Witness ==
    /\ Fitted /\ train # <<>>
    /\ self.min_samples_leaf = 2
    /\ Len(train[1].X.rows) = 4
    /\ Root.feature = "A"
    /\ Root.childs[1].feature_value = PyList(<<LeText(Rat(5, 2))>>, "text")
    /\ Root.childs[1].samples = 2 /\ Root.childs[2].samples = 2
    /\ RLess(NodeGain(Root),
             information_gain(self, train[1].y.values, 1..4, <<{1}, {2, 3, 4}>>))

\* C11: a node is internal only if its sample count is at least
\* min_samples_split and max_depth is unset (None) or the depth of the node, 1
\* at the root, is at most max_depth; so with max_depth an integer d no node
\* deeper than d has children.
RECURSIVE DepthRule(_, _)
DepthRule(node, depth) ==
    /\ IsInternal(node) =>
           /\ node.samples >= self.min_samples_split
           /\ (self.max_depth = NoneInt \/ depth <= self.max_depth)
    /\ \A k \in DOMAIN node.childs : DepthRule(node.childs[k], depth + 1)

C11_DepthRule == Fitted => DepthRule(Root, 1)

\* C12: a new classifier with min_samples_split = 2, min_samples_leaf = 1 and the
\* other parameters at their defaults, fitted on the rows (1, neg), (2, neg),
\* (10, pos), (11, pos) of one numerical feature, has a root split on that
\* feature at 6.0 with exactly two children, both pure leaves, one of the two
\* neg rows and one of the two pos rows; predict gives every training row its
\* label, and score on the training table is 1.
FourRowsFitted ==
    /\ fits = 1
    /\ train = <<FourRowsCall>>
    /\ self.min_samples_split = 2
    /\ self.min_samples_leaf = 1
    /\ self.max_depth = NoneInt
    /\ self.max_childs = NoneInt
    /\ self.min_impurity_decrease = RZero

PureLeaf(node, rows, class_name) ==
    /\ ~IsInternal(node)
    /\ node.childs = <<>>
    /\ node.rows = rows
    /\ node.samples = Cardinality(rows)
    /\ node.impurity = RZero
    /\ node.label = class_name

C12_FourRows ==
    FourRowsFitted =>
        /\ Fitted
        /\ Root.feature = "A"
        /\ Len(Root.childs) = 2
        /\ Root.childs[1].feature_value.v = << <<"<", "=", " ", "6", ".", "0">> >>
        /\ Root.childs[2].feature_value.v = << <<">", " ", "6", ".", "0">> >>
        /\ StoredThreshold(Root) = Rat(6, 1)
        /\ PureLeaf(Root.childs[1], {1, 2}, "neg")
        /\ PureLeaf(Root.childs[2], {3, 4}, "pos")
        /\ \A i \in DOMAIN FourRows :
               predict(self, Point(train[1].X.rows[i], train[1].X.dtypes)) = FourRows[i].y
        /\ (last.op = "score" => last.raised = None /\ last.result = <<Rat(1, 1)>>)

C12_Witness == FourRowsFitted /\ last.op = "score" /\ last.result = <<Rat(1, 1)>>

\* C13: once set_params(p=v) has returned, for names p that get_params lists,
\* get_params gives v for p; and a fit made after set_params(max_depth=1) grows
\* a tree in which no node but the root is internal.
C13_SetParamsTakesEffect ==
    /\ (last.op = "set_params" /\ last.raised = None) =>
           \A k \in DOMAIN last.args :
               get_params(self)[last.args[k][1]] = last.args[k][2]
    /\ (/\ last.op = "fit"
        /\ last.raised = None
        /\ "max_depth" \in DOMAIN self.attrs
        /\ self.attrs["max_depth"] = 1) =>
           \A k \in DOMAIN Root.childs : ~IsInternal(Root.childs[k])

\* C14: in the subset of a node, the thresholds the numerical evaluator tries
\* for a feature are exactly the midpoints between consecutive elements of the
\* sorted list of the distinct non-missing values of the subset (one fewer than
\* the distinct values); for the values 1, 2, 4, 4, 10 they are 1.5, 3.0, 7.0;
\* and the threshold stored for a numerical split is one of these midpoints.
DistinctMidpoints(X, rows, feature_name) ==
    LET distinct == SortedSet({Cell(X, i, feature_name) : i \in rows} \ {NaN})
    IN  [i \in 1..(Len(distinct) - 1) |-> Rat(distinct[i] + distinct[i + 1], 2)]

\* the features the selector hands to the numerical evaluator
NumericalFeatures ==
    {f \in Range(self.feature_names) :
        f \notin DOMAIN self.cat_feature_names \cup DOMAIN self.rank_feature_names}

C14_Thresholds ==
    (last.op = "fit" /\ last.raised = None) =>
        /\ \A node \in Nodes(Root) : \A f \in NumericalFeatures :
               /\ thresholds(points(last.args.X, node.rows, f))
                      = DistinctMidpoints(last.args.X, node.rows, f)
               /\ (SplitsOnThreshold(node) /\ node.feature = f) =>
                      \E k \in DOMAIN DistinctMidpoints(last.args.X, node.rows, f) :
                          StoredThreshold(node)
                              = DistinctMidpoints(last.args.X, node.rows, f)[k]
        /\ last.args = RepeatedRowsCall =>
               thresholds(points(last.args.X, Root.rows, "A"))
                   = <<Rat(3, 2), Rat(3, 1), Rat(7, 1)>>

\* C15: at a node where the selector runs, over the features available in
\* their order, the feature of the node is the first one whose best gain is
\* greatest among the features whose best gain is at least
\* min_impurity_decrease and greater than 0, the gain the incumbent starts
\* with; a feature of equal gain does not replace an earlier one; when no
\* feature has such a gain the node is a leaf.
\* (The features available at a node are those of the list its call received.)
BestGains(X, y, rows, names) ==
    List([k \in DOMAIN names |-> FeatureSplit(self, X, y, rows, names[k]).inf_gain])

\* the first of the features numbered in Q whose gain is greatest among them
FirstGreatest(names, gains, Q) ==
    IF Q = {} THEN None
    ELSE names[CHOOSE k \in Q :
                   /\ \A j \in Q : RLeq(gains[j], gains[k])
                   /\ \A j \in Q : j < k => RLess(gains[j], gains[k])]

Clears(gains) == {k \in DOMAIN gains : RLeq(self.min_impurity_decrease, gains[k])}
ClearsAboveZero(gains) == {k \in Clears(gains) : RLess(RZero, gains[k])}

\* the node is one __generate_node calls the selector for
SelectorRuns(node, depth) ==
    /\ node.samples >= self.min_samples_split
    /\ (Falsy(self.max_depth) \/ depth <= self.max_depth)

RECURSIVE SelectorRule(_, _, _, _)
SelectorRule(X, y, node, depth) ==
    /\ SelectorRuns(node, depth) =>
           node.feature = FirstGreatest(node.available,
                              BestGains(X, y, node.rows, node.available),
                              ClearsAboveZero(BestGains(X, y, node.rows, node.available)))
    /\ \A k \in DOMAIN node.childs : SelectorRule(X, y, node.childs[k], depth + 1)

C15_Selector ==
    (last.op = "fit" /\ last.raised = None) =>
        SelectorRule(last.args.X, last.args.y.values, Root, 1)

\* two features of equal gain: the earlier one is the feature of the root
C15_Witness ==
    /\ last.op = "fit"
    /\ last.raised = None
    /\ last.args = TwinRowsCall
    /\ Root.feature = "A"
    /\ LET gains == BestGains(last.args.X, last.args.y.values, Root.rows, <<"A", "B">>)
       IN  gains[1] = gains[2] /\ RLess(RZero, gains[1])

\* C15 as stated: the features that qualify are those whose best gain is at
\* least min_impurity_decrease
RECURSIVE SelectorRuleAsStated(_, _, _, _)
SelectorRuleAsStated(X, y, node, depth) ==
    /\ SelectorRuns(node, depth) =>
           node.feature = FirstGreatest(node.available,
                              BestGains(X, y, node.rows, node.available),
                              Clears(BestGains(X, y, node.rows, node.available)))
    /\ \A k \in DOMAIN node.childs : SelectorRuleAsStated(X, y, node.childs[k], depth + 1)

C15_AsStated ==
    (last.op = "fit" /\ last.raised = None) =>
        SelectorRuleAsStated(last.args.X, last.args.y.values, Root, 1)

\* C16: for a categorical feature with n >= 2 distinct non-missing values in a
\* subset of the rows, the candidates of the evaluator are exactly the
\* partitions of those values into at least 2 non-empty disjoint blocks, each
\* once (Bell(n) - 1 of them), without those of more than max_childs blocks
\* when max_childs is set; the one-block partition is not a candidate; the
\* candidates come by increasing number of blocks, and the partition returned
\* is the first one of strictly greatest gain in that order.
\* the partitions of the set V: a block B for one value of V, with a partition
\* of the values not in B
RECURSIVE SetPartitions(_)
SetPartitions(V) ==
    IF V = {} THEN {{}}
    ELSE LET x == CHOOSE v \in V : TRUE
         IN  UNION { { {S \cup {x}} \cup P : P \in SetPartitions(V \ (S \cup {x})) } :
                     S \in SUBSET (V \ {x}) }

RECURSIVE Stirling(_, _)
Stirling(n, k) ==
    IF n = 0 /\ k = 0 THEN 1
    ELSE IF n = 0 \/ k = 0 THEN 0
    ELSE k * Stirling(n - 1, k) + Stirling(n - 1, k - 1)

RECURSIVE BellSum(_, _)
BellSum(n, k) == IF k = 0 THEN Stirling(n, 0) ELSE Stirling(n, k) + BellSum(n, k - 1)
Bell(n) == BellSum(n, n)

\* the blocks of a candidate, as sets
BlockSet(candidate) == {Range(candidate[k]) : k \in DOMAIN candidate}

\* the candidate lists every value once, in non-empty blocks
WellFormed(candidate, V) ==
    /\ \A k \in DOMAIN candidate :
           candidate[k] # <<>> /\ Len(candidate[k]) = Cardinality(Range(candidate[k]))
    /\ Cardinality(BlockSet(candidate)) = Len(candidate)
    /\ UNION BlockSet(candidate) = V
    /\ \A a \in BlockSet(candidate) : \A b \in BlockSet(candidate) :
           a # b => a \cap b = {}

Allowed(P) == Cardinality(P) >= 2 /\ (self.max_childs = NoneInt \/ Cardinality(P) <= self.max_childs)

\* the candidates are the partitions of the set wanted, each once, by number of
\* blocks
SameAs(candidates, wanted) ==
    /\ {BlockSet(candidates[k]) : k \in DOMAIN candidates} = wanted
    /\ Len(candidates) = Cardinality(wanted)
    /\ \A j \in DOMAIN candidates : \A k \in DOMAIN candidates :
           j < k => Len(candidates[j]) <= Len(candidates[k])

CandidatesRule(candidates, V) ==
    /\ \A k \in DOMAIN candidates : WellFormed(candidates[k], V)
    /\ SameAs(candidates, {P \in SetPartitions(V) : Allowed(P)})
    /\ self.max_childs = NoneInt => Len(candidates) = Bell(Cardinality(V)) - 1
    /\ \A k \in DOMAIN candidates : BlockSet(candidates[k]) # {V}

\* the numbers of the scored candidates of strictly greatest gain, the first
\* among equals, when that gain is more than 0
Winners(scored) ==
    {k \in DOMAIN scored :
        /\ RLess(RZero, scored[k].inf_gain)
        /\ \A j \in DOMAIN scored : RLeq(scored[j].inf_gain, scored[k].inf_gain)
        /\ \A j \in DOMAIN scored : j < k => RLess(scored[j].inf_gain, scored[k].inf_gain)}

ReturnedRule(returned, scored, candidates) ==
    IF Winners(scored) = {} THEN returned.feature_values = <<>>
    ELSE \A k \in Winners(scored) :
             /\ returned.feature_values = candidates[k]
             /\ returned.inf_gain = scored[k].inf_gain

CategoricalRule(X, y, rows, f) ==
    Cardinality(available_feature_values(X, rows, f)) >= 2 =>
        /\ CandidatesRule(partitions(self, available_feature_values(X, rows, f)),
                          available_feature_values(X, rows, f))
        /\ ReturnedRule(best_categorical_split(self, X, y, rows, f),
                        categorical_scored(self, X, y, rows, f),
                        partitions(self, available_feature_values(X, rows, f)))

\* the subsets looked at: the rows of every node of the tree, and the first k
\* rows of the table for every k
ParentSubsets ==
    {node.rows : node \in Nodes(Root)} \cup {1..k : k \in 1..Len(last.args.X.rows)}

C16_CategoricalCandidates ==
    (last.op = "fit" /\ last.raised = None) =>
        \A f \in Range(self.feature_names) \cap DOMAIN self.cat_feature_names :
            \A rows \in ParentSubsets :
                CategoricalRule(last.args.X, last.args.y.values, rows, f)

\* four tokens, max_childs unset: 14 candidates, and the root holds the first
\* of greatest gain, {1, 3} against {2, 4}
C16_Witness ==
    /\ last.op = "fit"
    /\ last.raised = None
    /\ last.args = CategoricalCall
    /\ self.max_childs = NoneInt
    /\ Len(partitions(self, available_feature_values(last.args.X, 1..4, "A"))) = 14
    /\ Root.feature = "A"
    /\ Len(Root.childs) = 2
    /\ BlockSet(<<Root.childs[1].feature_value.v, Root.childs[2].feature_value.v>>)
           = {{1, 3}, {2, 4}}

\* C17: for a rank feature with a declared ordered vocabulary of L values, the
\* candidates of the evaluator are the L - 1 cuts, the i-th being the first i
\* values against the other L - i, in that order; and, in any non-empty subset
\* of the rows, the cut returned is the first one of strictly greatest gain
\* among the cuts that leave both children at least min_samples_leaf rows.
\* the rows of a child: a token of the block, or no value
BlockRows(X, rows, f, block) == isin(X, rows, f, block, "str") \cup isna(X, rows, f)

\* the gain of a cut, when it leaves both children enough rows
CutGains(X, y, rows, f, cuts) ==
    List([i \in DOMAIN cuts |->
             IF \A b \in 1..2 :
                    Cardinality(BlockRows(X, rows, f, cuts[i][b])) >= self.min_samples_leaf
             THEN [inf_gain |->
                       information_gain(self, y, rows,
                           <<BlockRows(X, rows, f, cuts[i][1]),
                             BlockRows(X, rows, f, cuts[i][2])>>)]
             ELSE [inf_gain |-> RZero]])

CutsRule(cuts, vocabulary) ==
    /\ Len(cuts) = Len(vocabulary) - 1
    /\ \A i \in DOMAIN cuts :
           /\ Len(cuts[i]) = 2
           /\ Len(cuts[i][1]) = i
           /\ Len(cuts[i][2]) = Len(vocabulary) - i
           /\ cuts[i][1] \o cuts[i][2] = vocabulary

RankRule(X, y, rows, f) ==
    ReturnedRule(best_rank_split(self, X, y, rows, f),
                 CutGains(X, y, rows, f, rank_partition(self.rank_feature_names[f])),
                 rank_partition(self.rank_feature_names[f]))

C17_RankCuts ==
    (last.op = "fit" /\ last.raised = None) =>
        \A f \in (Range(self.feature_names) \cap DOMAIN self.rank_feature_names)
                    \ DOMAIN self.cat_feature_names :
            /\ CutsRule(rank_partition(self.rank_feature_names[f]),
                        self.rank_feature_names[f])
            /\ \A rows \in SUBSET (1..Len(last.args.X.rows)) \ {{}} :
                   RankRule(last.args.X, last.args.y.values, rows, f)

\* min_samples_leaf = 2: the cut after the first value, of greatest gain, would
\* leave one row on the left; the root holds the cut after the second value
C17_Witness ==
    /\ last.op = "fit"
    /\ last.raised = None
    /\ last.args = RankCall
    /\ self.min_samples_leaf = 2
    /\ Root.feature = "A"
    /\ Root.childs[1].feature_value.v = <<1, 2>>
    /\ Root.childs[2].feature_value.v = <<3, 4>>

\* C18: at every internal node of a fitted tree the children cover the rows of
\* the node: a row with a value for the split feature is in exactly one child,
\* a row without one is in every child, no child has a row that is not in the
\* node; so the sample counts of the children add up to the count of the node
\* plus (number of children - 1) times the number of its rows without a value.
RECURSIVE Sum(_)
Sum(s) == IF s = <<>> THEN 0 ELSE Head(s) + Sum(Tail(s))

CoverRule(X, node) ==
    IsInternal(node) =>
        /\ \A k \in DOMAIN node.childs : node.childs[k].rows \subseteq node.rows
        /\ \A i \in node.rows :
               IF Cell(X, i, node.feature) = NaN
               THEN \A k \in DOMAIN node.childs : i \in node.childs[k].rows
               ELSE Cardinality({k \in DOMAIN node.childs : i \in node.childs[k].rows}) = 1
        /\ Sum([k \in DOMAIN node.childs |-> node.childs[k].samples])
               = node.samples
                   + (Len(node.childs) - 1) * Cardinality(isna(X, node.rows, node.feature))

C18_ChildrenCover ==
    (last.op = "fit" /\ last.raised = None) =>
        \A node \in Nodes(Root) : CoverRule(last.args.X, node)

\* C19: with max_depth unset, in a fitted tree every child has rows of its
\* parent only and strictly fewer of them, also where the rows without a value
\* are copied into every child; so the tree is no higher than the table has
\* rows, and the construction of the nodes is finite.
RECURSIVE Height(_)
Height(node) ==
    IF node.childs = <<>> THEN 1
    ELSE 1 + Height(node.childs[CHOOSE k \in DOMAIN node.childs :
                        \A j \in DOMAIN node.childs :
                            Height(node.childs[j]) <= Height(node.childs[k])])

ShrinkRule(node) ==
    \A k \in DOMAIN node.childs :
        /\ node.childs[k].rows \subseteq node.rows
        /\ node.childs[k].samples = Cardinality(node.childs[k].rows)
        /\ node.childs[k].samples < node.samples

C19_ChildrenShrink ==
    (last.op = "fit" /\ last.raised = None /\ self.max_depth = NoneInt) =>
        /\ \A node \in Nodes(Root) : ShrinkRule(node)
        /\ Height(Root) <= Len(last.args.X.rows)

\* a split whose row without a value is in both children, and a tree of two
\* levels of splits
C19_Witness ==
    /\ last.op = "fit"
    /\ last.raised = None
    /\ self.max_depth = NoneInt
    /\ last.args = MissingRowsCall
    /\ IsInternal(Root)
    /\ \A k \in DOMAIN Root.childs : 5 \in Root.childs[k].rows
    /\ \A node \in Nodes(Root) : ShrinkRule(node)

\* C20: at every node where the selector runs, every candidate the
\* categorical, rank and numerical evaluators score for a feature that no row
\* of the node lacks has an information gain of at least 0; gains are computed
\* exactly, under the gini criterion.
\* (Stated for every column of the table, those not yet available at the node
\* included.)
\* the candidates an evaluator has scored, those it gave up for a small child
\* left out
FeatureScored(X, y, rows, f) ==
    SelectSeq(IF f \in DOMAIN self.cat_feature_names
              THEN categorical_scored(self, X, y, rows, f)
              ELSE IF f \in DOMAIN self.rank_feature_names
              THEN rank_scored(self, X, y, rows, f)
              ELSE numerical_scored(self, X, y, rows, f),
              LAMBDA c : c.masks # <<>>)

NoGainBelowZero(scored) == \A k \in DOMAIN scored : RLeq(RZero, scored[k].inf_gain)

RECURSIVE GainRule(_, _, _, _)
GainRule(X, y, node, depth) ==
    /\ SelectorRuns(node, depth) =>
           \A f \in Range(X.columns) :
               isna(X, node.rows, f) = {} =>
                   NoGainBelowZero(FeatureScored(X, y, node.rows, f))
    /\ \A k \in DOMAIN node.childs : GainRule(X, y, node.childs[k], depth + 1)

RECURSIVE GainRuleAsStated(_, _, _, _)
GainRuleAsStated(X, y, node, depth) ==
    /\ SelectorRuns(node, depth) =>
           \A f \in Range(X.columns) : NoGainBelowZero(FeatureScored(X, y, node.rows, f))
    /\ \A k \in DOMAIN node.childs : GainRuleAsStated(X, y, node.childs[k], depth + 1)

TwiceGated(special_cases) ==
    \E G \in DOMAIN special_cases : \E H \in DOMAIN special_cases :
        G # H /\ Range(special_cases[G]) \cap Range(special_cases[H]) # {}

C21_TwiceGatedRejected ==
    [][(fits' = fits + 1 /\ TwiceGated(last'.args.special_cases))
          => /\ last'.raised = "ValueError"
             /\ self'.tree = self.tree
             /\ (fits = 0 => self'.tree = <<>>)]_vars

\* the first call on a new object: C under A and under B
C21_Witness ==
    /\ fits = 1
    /\ last.op = "fit"
    /\ last.args = GatedCall([A |-> <<"C">>, B |-> <<"C">>])
    /\ TwiceGated(last.args.special_cases)
    /\ last.raised = "ValueError"
    /\ self.tree = <<>>

\* C22: the construction of a node leaves the list of eligible features and the
\* hierarchy map it received as they were: every child of a node that splits is
\* called with the same list and the same map, those of the node with the
\* features its split unlocks appended and the key of its split removed; what a
\* split in the subtree of one child unlocks is in the list of no sibling and
\* not in the list of the node; and the map passed to fit holds, when fit has
\* returned, what it held at the call.
Unlocks(node) == node.special # <<>> /\ node.feature \in DOMAIN node.special

\* the list and the map after the split of the node
PostSplitAvailable(node) ==
    IF Unlocks(node) THEN node.available \o node.special[node.feature] ELSE node.available
PostSplitSpecial(node) ==
    IF Unlocks(node) THEN Pop(node.special, node.feature) ELSE node.special

\* the call that made the node, made again on what it received
Rebuilt(node, depth, X, y) ==
    generate_node(self, X, y, node.rows, node.feature_value, depth, node.available,
                  node.special, self.feature_importances)

\* the call returns with the two objects holding what they held
LeavesAsReceived(node, built) ==
    /\ built.available = node.available
    /\ built.special = node.special
    /\ built.node = node

RECURSIVE SharingRule(_, _, _, _)
SharingRule(node, depth, X, y) ==
    /\ LeavesAsReceived(node, Rebuilt(node, depth, X, y))
    /\ IsInternal(node) => node.feature \in Range(node.available)
    /\ \A k \in DOMAIN node.childs :
           /\ node.childs[k].available = PostSplitAvailable(node)
           /\ node.childs[k].special = PostSplitSpecial(node)
           /\ SharingRule(node.childs[k], depth + 1, X, y)

C22_NothingShared ==
    (last.op = "fit" /\ last.raised = None) =>
        /\ Root.available = RemoveAll(last.args.X.columns,
                                      GatedNames(last.args.special_cases)).list
        /\ Root.special = last.args.special_cases
        /\ SharingRule(Root, 1, last.args.X, last.args.y.values)
        /\ last.result = <<last.args.special_cases>>

\* under B -> A -> C the root splits on B; its first child splits on A, which
\* unlocks C below it; its second child, whose classes only C separates, was
\* called with B and A and is a leaf
C22_Witness ==
    /\ last.op = "fit"
    /\ last.raised = None
    /\ last.args = ChainCall
    /\ Root.available = <<"B">>
    /\ Root.feature = "B"
    /\ Root.childs[1].feature = "A"
    /\ Root.childs[1].childs[1].available = <<"B", "A", "C">>
    /\ Root.childs[1].childs[1].special = <<>>
    /\ Root.childs[2].available = <<"B", "A">>
    /\ DOMAIN Root.childs[2].special = {"A"}
    /\ ~IsInternal(Root.childs[2])
    /\ last.result = <<[B |-> <<"A">>, A |-> <<"C">>]>>

\* C23: while the tree of the last fit that returned is a single leaf, reading
\* feature_importances returns no mapping: it raises ZeroDivisionError, every
\* accumulator being 0 and divided by the sum of all, and leaves the object as
\* it was.
AllZero(fi) == \A f \in DOMAIN fi : fi[f] = RZero

C23_NoSplitNoImportances ==
    [][(Fitted /\ ~IsInternal(Root) /\ last'.op = "feature_importances")
          => /\ AllZero(self.feature_importances)
             /\ ImportanceTotal(self.feature_importances) = RZero
             /\ last'.raised = "ZeroDivisionError"
             /\ last'.result = <<>>
             /\ self' = self]_vars

\* the read has raised on a tree that is one leaf, two accumulators at 0
C23_Witness ==
    /\ last.op = "feature_importances"
    /\ last.raised = "ZeroDivisionError"
    /\ Fitted
    /\ ~IsInternal(Root)
    /\ Root.childs = <<>>
    /\ DOMAIN self.feature_importances = {"A", "B"}
    /\ AllZero(self.feature_importances)

\* C24: after a fit that made a split, a read of feature_importances that
\* follows a read, no fit in between, returns the mapping the read before it
\* returned; every read stores and returns the accumulators divided by their
\* sum, which is 1 from the first read on.  Arithmetic is exact.
Normalised(fi) == [f \in DOMAIN fi |-> RDiv(fi[f], ImportanceTotal(fi))]

\* the call before the read: the fit, which returned a tree with a split, or a
\* read that returned
ReadFollows ==
    \/ last.op = "fit" /\ last.raised = None /\ IsInternal(Root)
    \/ last.op = "feature_importances" /\ last.raised = None

C24_ReadsAgree ==
    [][(ReadFollows /\ last'.op = "feature_importances")
          => /\ last'.raised = None
             /\ self'.feature_importances = Normalised(self.feature_importances)
             /\ last'.result = <<self'.feature_importances>>
             /\ ImportanceTotal(self'.feature_importances) = Rat(1, 1)
             /\ (last.op = "feature_importances" => last'.result = last.result)]_vars

\* a read has returned shares that are not the sums fit accumulated, and the
\* object holds them: the next read divides them by 1
C24_Witness ==
    /\ last.op = "feature_importances"
    /\ last.raised = None
    /\ queries >= 2
    /\ Fitted
    /\ IsInternal(Root)
    /\ \E f \in DOMAIN self.feature_importances :
           self.feature_importances[f] # Contribution(Root, f, self.total_samples_num)
    /\ last.result = <<self.feature_importances>>
    /\ Normalised(self.feature_importances) = self.feature_importances

\* C25: in a tree fit has built, every node has a split feature exactly when it
\* has children; a node with children has at least 2, exactly 2 when the fit
\* call declares its feature rank or numerical, at most max_childs when
\* max_childs is set; its sample count is the sum of its distribution; its label
\* is a class of greatest count in the distribution; and the branch descriptor
\* is None at the root and nowhere else, the sample count of the root being the
\* number of rows of the training table.
\* the number of the class in class_names
ClassIndex(class_name) ==
    CHOOSE c \in DOMAIN self.class_names : self.class_names[c] = class_name

\* the features the fit call c declares rank or numerical
TwoWayFeatures(c) == DOMAIN c.rank_feature_names \cup Range(c.numerical_feature_names)

NodeRule(node, c) ==
    /\ (node.feature = None) <=> (node.childs = <<>>)
    /\ node.childs # <<>> =>
           /\ Len(node.childs) >= 2
           /\ node.feature \in TwoWayFeatures(c) => Len(node.childs) = 2
           /\ self.max_childs # NoneInt => Len(node.childs) <= self.max_childs
    /\ node.samples = Sum(node.distribution)
    /\ node.label \in Range(self.class_names)
    /\ \A k \in DOMAIN node.distribution :
           node.distribution[k] <= node.distribution[ClassIndex(node.label)]

C25_NodeShape ==
    (last.op = "fit" /\ last.raised = None) =>
        /\ \A node \in Nodes(Root) : NodeRule(node, last.args)
        /\ Root.feature_value = PyNone
        /\ Root.samples = Len(last.args.X.rows)
        /\ \A node \in Nodes(Root) : \A k \in DOMAIN node.childs :
               node.childs[k].feature_value # PyNone

====
